---- MODULE Spec2Model ----
(***************************************************************************)
(* Turn-based simulation kernel of the roguelike: turn scheduler           *)
(* (Engine.handle_enemy_turns), visibility tracker (Engine.update_fov),    *)
(* behaviour state machine (HostileEnemy, ConfusedEnemy) and pathfinder    *)
(* (BaseAI.get_path_to).                                                   *)
(***************************************************************************)
EXTENDS Integers, Sequences, FiniteSets, TLC

VARIABLES
    width, height,      \* GameMap.width, GameMap.height
    tiles,              \* GameMap.tiles: cell -> [walkable, transparent]
    entities,           \* GameMap.entities (a set)
    pos,                \* Entity.x, Entity.y
    blocks_movement,    \* Entity.blocks_movement
    ai,                 \* Actor.ai (the AI instance the actor owns, or None)
    hp,                 \* Fighter.hp
    visible, explored,  \* GameMap.visible, GameMap.explored (boolean grids as sets)
    message_log,        \* number of messages in Engine.message_log
    scrolls,            \* confusion scrolls the player still carries
    phase,              \* whose code runs next: "start", "player" or "enemies"
    pending,            \* handle_enemy_turns: actors of the snapshot not yet iterated
    snapshot,           \* handle_enemy_turns: set(actors) - {player} of the running call
    performed,          \* per actor, perform() invocations in the running call
    skipped,            \* actors iterated in the running call whose AI slot was empty
    raised,             \* actors whose perform() raised in the running call
    propagated,         \* an exception left handle_enemy_turns
    last_action,        \* the action the most recent perform() emitted
    query, path_result, \* the most recent get_path_to call and what it returned
    heap,               \* the objects of the session: address -> Engine, GameWorld,
                        \* GameMap or Entity with its references
    disk,               \* the save file: whether it exists, and its bytes
    saved,              \* history: the heap the bytes of the save file were made from
    restored,           \* what loading the save file has built
    io,                 \* the most recent save_as, load or generate_floor call
    equipment,          \* Equipment.weapon, Equipment.armor of the player
    level,              \* the fields of a Level component
    main,               \* main(): the active handler, and how the loop has ended
    call                \* the most recent call of toggle_equip or add_xp, or the most
                        \* recent event of the main loop

vars == <<width, height, tiles, entities, pos, blocks_movement, ai, hp, visible,
          explored, message_log, scrolls, phase, pending, snapshot, performed,
          skipped, raised, propagated, last_action, query, path_result,
          heap, disk, saved, restored, io, equipment, level, main, call>>

worldVars == <<heap, disk, saved, restored, io>>
partVars == <<equipment, level, main, call>>

----------------------------------------------------------------------------
(* Bounds of the model *)

\* length of the one-row corridor map (longer than the radius of the field of view)
CorridorLen == 10
\* confusion scrolls in the player's inventory
NumScrolls == 2
\* turns a confusion scroll lasts
ConfusionTurns == 2
\* the player stops acting once the log holds this many messages
MaxLog == 2
\* hit points at the start
PlayerHp == 2
MonsterHp == 1
\* the maps the pathfinder is queried on: three rows of this many cells, with at
\* most this many wall cells
PathWidth == 3
MaxWalls == 3

(* Program constants *)

\* radius of the field of view
FovRadius == 8
\* cost added to a cell per movement-blocking entity standing on it
BlockPenalty == 10
\* edge weights of the path graph
Cardinal == 2
Diagonal == 3

----------------------------------------------------------------------------
(* Arithmetic helpers *)

Abs(n) == IF n < 0 THEN -n ELSE n
Sgn(n) == IF n < 0 THEN -1 ELSE IF n > 0 THEN 1 ELSE 0
Max(a, b) == IF a >= b THEN a ELSE b

\* max(abs(dx), abs(dy))
Chebyshev(a, b) == Max(Abs(b[1] - a[1]), Abs(b[2] - a[2]))

----------------------------------------------------------------------------
(* Tiles and the grid *)

floor == [walkable |-> TRUE, transparent |-> TRUE]
wall == [walkable |-> FALSE, transparent |-> FALSE]
\* a tile that lets sight through and nobody in: the two flags are independent
chasm == [walkable |-> FALSE, transparent |-> TRUE]

Cells == (0 .. width - 1) \X (0 .. height - 1)

in_bounds(c) == 0 <= c[1] /\ c[1] < width /\ 0 <= c[2] /\ c[2] < height

\* the eight compass offsets
Directions == ((-1 .. 1) \X (-1 .. 1)) \ {<<0, 0>>}

Offset(c, d) == <<c[1] + d[1], c[2] + d[2]>>

Adjacent8(a, b) == Chebyshev(a, b) = 1

----------------------------------------------------------------------------
(* Field of view: tcod.map.compute_fov(transparent, origin, radius) *)

\* the i-th of n cells of the straight line from o to c
LineCell(o, c, i, n) ==
    <<o[1] + Sgn(c[1] - o[1]) * ((2 * i * Abs(c[1] - o[1]) + n) \div (2 * n)),
      o[2] + Sgn(c[2] - o[2]) * ((2 * i * Abs(c[2] - o[2]) + n) \div (2 * n))>>

\* no opaque cell strictly between o and c
LineOfSight(transparent, o, c) ==
    LET n == Chebyshev(o, c)
    IN  \A i \in 1 .. n - 1 : transparent[LineCell(o, c, i, n)]

compute_fov(transparent, origin, radius) ==
    {c \in DOMAIN transparent :
        /\ (c[1] - origin[1]) * (c[1] - origin[1])
             + (c[2] - origin[2]) * (c[2] - origin[2]) <= radius * radius
        /\ LineOfSight(transparent, origin, c)}

----------------------------------------------------------------------------
(* Entities *)

Player == "player"
Actors == {"player", "orc", "troll"}
Items == {"potion"}

\* Actor.ai values
NoAI == [kind |-> "None"]
HostileEnemy(path) == [kind |-> "Hostile", path |-> path]

\* ConfusedEnemy.__init__: stores whatever AI it is given
ConfusedEnemy(previous_ai, turns_remaining) ==
    [kind |-> "Confused", previous_ai |-> previous_ai,
     turns_remaining |-> turns_remaining,
     bumps |-> 0]    \* history: bump actions this instance has emitted

\* Actor.is_alive: the AI slot is not empty
is_alive(e) == ai[e].kind # "None"

\* the actors among the entities, the dead with the living
ActorsOf_Unfiltered(slots) == {e \in entities : e \in Actors}

\* GameMap.actors: the living actors among the entities, filtered on each call
ActorsOf(slots) == {e \in entities : e \in Actors /\ slots[e].kind # "None"}
actors == ActorsOf(ai)

\* GameMap.get_blocking_entity_at_location (all candidates; the code returns the first)
get_blocking_entity_at_location(c) ==
    {e \in entities : blocks_movement[e] /\ pos[e] = c}

\* GameMap.get_actor_at_location (all candidates; the code returns the first)
get_actor_at_location(c) == {a \in actors : pos[a] = c}

----------------------------------------------------------------------------
(* Pathfinder: BaseAI.get_path_to *)

\* a cost array in which a wall is a dear cell instead of an impassable one
CostArray_WallsPassable ==
    [c \in Cells |->
        (IF tiles[c].walkable THEN 1 ELSE BlockPenalty)
          + BlockPenalty * Cardinality(get_blocking_entity_at_location(c))]

\* a cost array in which a blocking entity closes its cell instead of adding to it
CostArray_HardBlock ==
    [c \in Cells |->
        IF tiles[c].walkable /\ get_blocking_entity_at_location(c) = {}
        THEN 1
        ELSE 0]

\* the cost array: walkable as 0/1, plus the penalty per blocking entity
CostArray ==
    [c \in Cells |->
        IF tiles[c].walkable
        THEN 1 + BlockPenalty * Cardinality(get_blocking_entity_at_location(c))
        ELSE 0]

\* edge weights that leave the cost of the cell entered out
EdgeWeight_Unweighted(cost, a, b) ==
    IF a[1] = b[1] \/ a[2] = b[2] THEN Cardinal ELSE Diagonal

\* tcod.path.SimpleGraph(cost, cardinal=2, diagonal=3): weight of the edge a -> b
EdgeWeight(cost, a, b) ==
    (IF a[1] = b[1] \/ a[2] = b[2] THEN Cardinal ELSE Diagonal) * cost[b]

MinOf(S) == CHOOSE m \in S : \A n \in S : m <= n

\* one round of relaxation of the distance array d (-1: not reached)
Relax(cost, d) ==
    [c \in DOMAIN d |->
        LET cands == {d[n] + EdgeWeight(cost, n, c) :
                        n \in {m \in DOMAIN d : Adjacent8(m, c) /\ d[m] >= 0}}
                     \cup (IF d[c] >= 0 THEN {d[c]} ELSE {})
        IN  IF cost[c] = 0 \/ cands = {} THEN d[c] ELSE MinOf(cands)]

RECURSIVE Resolve(_, _)
Resolve(cost, d) ==
    LET d2 == Relax(cost, d)
    IN  IF d2 = d THEN d ELSE Resolve(cost, d2)

\* distances from the root
Distances(cost, root) ==
    Resolve(cost, [c \in DOMAIN cost |-> IF c = root THEN 0 ELSE -1])

\* every minimum-cost route from the root to c, the root excluded
RECURSIVE RoutesTo(_, _, _, _)
RoutesTo(cost, d, root, c) ==
    IF c = root THEN {<<>>}
    ELSE UNION {{Append(p, c) : p \in RoutesTo(cost, d, root, n)} :
                  n \in {m \in DOMAIN d : /\ Adjacent8(m, c)
                                          /\ d[m] >= 0
                                          /\ d[m] + EdgeWeight(cost, m, c) = d[c]}}

\* path_to(dest) without the [1:] that removes the starting point
get_path_to_WithRoot(e, dest) ==
    LET cost == CostArray
        d == Distances(cost, pos[e])
    IN  IF d[dest] < 0 THEN {<<dest>>}
        ELSE {<<pos[e]>> \o p : p \in RoutesTo(cost, d, pos[e], dest)}

\* the paths pathfinder.path_to(dest)[1:] can return (ties are the library's choice)
get_path_to(e, dest) ==
    LET cost == CostArray
        d == Distances(cost, pos[e])
    IN  IF d[dest] < 0 THEN {<<>>} ELSE RoutesTo(cost, d, pos[e], dest)

----------------------------------------------------------------------------
(* Action layer: WaitAction, MovementAction, MeleeAction, BumpAction.
   An action reads the world as it is and takes the AI slots as its AI left
   them (ai0); it yields the world after it, and whether it raised Impossible. *)

Unchanged(ai0, r) ==
    [pos |-> pos, ai |-> ai0, hp |-> hp, blocks_movement |-> blocks_movement,
     message_log |-> message_log, raised |-> r]

WaitAction(ai0, e) == Unchanged(ai0, FALSE)

MovementAction(ai0, e, d) ==
    LET dest == Offset(pos[e], d)
    IN  IF ~in_bounds(dest) THEN Unchanged(ai0, TRUE)
        ELSE IF ~tiles[dest].walkable THEN Unchanged(ai0, TRUE)
        ELSE IF get_blocking_entity_at_location(dest) # {} THEN Unchanged(ai0, TRUE)
        ELSE [Unchanged(ai0, FALSE) EXCEPT !.pos = [pos EXCEPT ![e] = dest]]

\* Fighter.power - Fighter.defense of the target
Damage(e, t) == 1

MeleeAction(ai0, e, d) ==
    LET targets == get_actor_at_location(Offset(pos[e], d))
    IN  IF targets = {} THEN Unchanged(ai0, TRUE)
        ELSE LET t == CHOOSE a \in targets : TRUE
                 left == Max(0, hp[t] - Damage(e, t))
                 dies == left = 0 /\ ai0[t].kind # "None"
             IN  IF Damage(e, t) <= 0
                 THEN [Unchanged(ai0, FALSE) EXCEPT !.message_log = @ + 1]
                 ELSE [pos |-> pos,
                       ai |-> IF dies THEN [ai0 EXCEPT ![t] = NoAI] ELSE ai0,
                       hp |-> [hp EXCEPT ![t] = left],
                       blocks_movement |->
                           IF dies THEN [blocks_movement EXCEPT ![t] = FALSE]
                           ELSE blocks_movement,
                       message_log |-> message_log + (IF dies THEN 2 ELSE 1),
                       raised |-> FALSE]

BumpAction(ai0, e, d) ==
    IF get_actor_at_location(Offset(pos[e], d)) # {}
    THEN MeleeAction(ai0, e, d)
    ELSE MovementAction(ai0, e, d)

----------------------------------------------------------------------------
(* Behaviour state machine *)

NoAction == [kind |-> "none", d |-> <<0, 0>>]
Emit(kind, d) == [kind |-> kind, d |-> d]

\* ConfusedEnemy.perform reverting on turns_remaining < 0 instead of <= 0
ConfusedPerform_OffByOne(e, d) ==
    IF ai[e].turns_remaining < 0
    THEN [eff |-> [Unchanged([ai EXCEPT ![e] = ai[e].previous_ai], FALSE)
                    EXCEPT !.message_log = @ + 1],
          action |-> NoAction]
    ELSE [eff |-> BumpAction([ai EXCEPT ![e].turns_remaining = @ - 1,
                                        ![e].bumps = @ + 1], e, d),
          action |-> Emit("bump", d)]

\* ConfusedEnemy.perform adding a message to the log before it bumps
ConfusedPerform_AnnouncesStumble(e, d) ==
    IF ai[e].turns_remaining <= 0
    THEN [eff |-> [Unchanged([ai EXCEPT ![e] = ai[e].previous_ai], FALSE)
                    EXCEPT !.message_log = @ + 1],
          action |-> NoAction]
    ELSE [eff |-> [BumpAction([ai EXCEPT ![e].turns_remaining = @ - 1,
                                         ![e].bumps = @ + 1], e, d)
                    EXCEPT !.message_log = @ + 1],
          action |-> Emit("bump", d)]

\* ConfusedEnemy.perform decrementing after the bump, so not when the bump raises
ConfusedPerform_DecrementAfter(e, d) ==
    IF ai[e].turns_remaining <= 0
    THEN [eff |-> [Unchanged([ai EXCEPT ![e] = ai[e].previous_ai], FALSE)
                    EXCEPT !.message_log = @ + 1],
          action |-> NoAction]
    ELSE LET eff == BumpAction([ai EXCEPT ![e].turns_remaining = @ - 1,
                                          ![e].bumps = @ + 1], e, d)
         IN  [eff |-> IF eff.raised
                      THEN Unchanged([ai EXCEPT ![e].bumps = @ + 1], TRUE)
                      ELSE eff,
              action |-> Emit("bump", d)]

\* ConfusedEnemy.perform reverting to a newly made HostileEnemy
ConfusedPerform_FreshAI(e, d) ==
    IF ai[e].turns_remaining <= 0
    THEN [eff |-> [Unchanged([ai EXCEPT ![e] = HostileEnemy(<<>>)], FALSE)
                    EXCEPT !.message_log = @ + 1],
          action |-> NoAction]
    ELSE [eff |-> BumpAction([ai EXCEPT ![e].turns_remaining = @ - 1,
                                        ![e].bumps = @ + 1], e, d),
          action |-> Emit("bump", d)]

\* ConfusedEnemy.perform with the direction random.choice picked
ConfusedPerform(e, d) ==
    IF ai[e].turns_remaining <= 0
    THEN [eff |-> [Unchanged([ai EXCEPT ![e] = ai[e].previous_ai], FALSE)
                    EXCEPT !.message_log = @ + 1],
          action |-> NoAction]
    ELSE [eff |-> BumpAction([ai EXCEPT ![e].turns_remaining = @ - 1,
                                        ![e].bumps = @ + 1], e, d),
          action |-> Emit("bump", d)]

\* HostileEnemy.perform following its cached path before it looks for the player
HostilePerform_PathFirst(e, found) ==
    LET d == <<pos[Player][1] - pos[e][1], pos[Player][2] - pos[e][2]>>
        distance == Chebyshev(pos[e], pos[Player])
        seen == pos[e] \in visible
        path == IF ai[e].path # <<>> \/ ~seen THEN ai[e].path ELSE found
    IN  IF path # <<>>
        THEN LET dest == Head(path)
                 step == <<dest[1] - pos[e][1], dest[2] - pos[e][2]>>
             IN  [eff |-> MovementAction([ai EXCEPT ![e].path = Tail(path)], e, step),
                  action |-> Emit("move", step)]
        ELSE IF seen /\ distance <= 1
        THEN [eff |-> MeleeAction(ai, e, d), action |-> Emit("melee", d)]
        ELSE [eff |-> WaitAction([ai EXCEPT ![e].path = path], e),
              action |-> Emit("wait", <<0, 0>>)]

\* HostileEnemy.perform waiting whenever its actor is not in the field of view
HostilePerform_WaitsUnseen(e, found) ==
    LET d == <<pos[Player][1] - pos[e][1], pos[Player][2] - pos[e][2]>>
        distance == Chebyshev(pos[e], pos[Player])
        seen == pos[e] \in visible
    IN  IF ~seen
        THEN [eff |-> WaitAction(ai, e), action |-> Emit("wait", <<0, 0>>)]
        ELSE IF distance <= 1
        THEN [eff |-> MeleeAction(ai, e, d), action |-> Emit("melee", d)]
        ELSE IF found # <<>>
        THEN LET dest == Head(found)
                 step == <<dest[1] - pos[e][1], dest[2] - pos[e][2]>>
             IN  [eff |-> MovementAction([ai EXCEPT ![e].path = Tail(found)], e, step),
                  action |-> Emit("move", step)]
        ELSE [eff |-> WaitAction([ai EXCEPT ![e].path = found], e),
              action |-> Emit("wait", <<0, 0>>)]

\* HostileEnemy.perform popping the path without "if self.path:": the pop of an
\* empty list raises
HostilePerform_PopsEmpty(e, found) ==
    LET d == <<pos[Player][1] - pos[e][1], pos[Player][2] - pos[e][2]>>
        distance == Chebyshev(pos[e], pos[Player])
        seen == pos[e] \in visible
        path == IF seen THEN found ELSE ai[e].path
    IN  IF seen /\ distance <= 1
        THEN [eff |-> MeleeAction(ai, e, d), action |-> Emit("melee", d)]
        ELSE IF path # <<>>
        THEN LET dest == Head(path)
                 step == <<dest[1] - pos[e][1], dest[2] - pos[e][2]>>
             IN  [eff |-> MovementAction([ai EXCEPT ![e].path = Tail(path)], e, step),
                  action |-> Emit("move", step)]
        ELSE [eff |-> Unchanged([ai EXCEPT ![e].path = path], TRUE),
              action |-> NoAction]

\* HostileEnemy.perform with the path the pathfinder returned (if it was asked)
HostilePerform(e, found) ==
    LET d == <<pos[Player][1] - pos[e][1], pos[Player][2] - pos[e][2]>>
        distance == Chebyshev(pos[e], pos[Player])
        seen == pos[e] \in visible
        path == IF seen THEN found ELSE ai[e].path
    IN  IF seen /\ distance <= 1
        THEN [eff |-> MeleeAction(ai, e, d), action |-> Emit("melee", d)]
        ELSE IF path # <<>>
        THEN LET dest == Head(path)
                 step == <<dest[1] - pos[e][1], dest[2] - pos[e][2]>>
             IN  [eff |-> MovementAction([ai EXCEPT ![e].path = Tail(path)], e, step),
                  action |-> Emit("move", step)]
        ELSE [eff |-> WaitAction([ai EXCEPT ![e].path = path], e),
              action |-> Emit("wait", <<0, 0>>)]

\* entity.ai.perform(): every outcome the call can have
Perform(e) ==
    IF ai[e].kind = "Confused"
    THEN {ConfusedPerform(e, d) : d \in Directions}
    ELSE IF pos[e] \in visible /\ Chebyshev(pos[e], pos[Player]) > 1
    THEN {HostilePerform(e, p) : p \in get_path_to(e, pos[Player])}
    ELSE {HostilePerform(e, <<>>)}

----------------------------------------------------------------------------
(* Initial worlds *)

\* a room around a pillar, with two monsters and an item; the troll starts in
\* the given cell
RingWorld(at) ==
    [width |-> 3, height |-> 3, walls |-> {<<1, 1>>}, chasms |-> {},
     entities |-> {"player", "orc", "troll", "potion"},
     pos |-> [e \in Actors \cup Items |->
                CASE e = "player" -> <<0, 0>>
                  [] e = "orc" -> <<2, 2>>
                  [] e = "troll" -> at
                  [] OTHER -> <<0, 2>>],
     scrolls |-> NumScrolls]

\* a corridor longer than the radius of the field of view, the player alone
CorridorWorld ==
    [width |-> CorridorLen, height |-> 1, walls |-> {}, chasms |-> {},
     entities |-> {"player"},
     pos |-> [e \in Actors \cup Items |-> <<0, 0>>],
     scrolls |-> 0]

\* a dead-end hall: the monsters stand in line behind each other
HallWorld ==
    [width |-> 4, height |-> 1, walls |-> {}, chasms |-> {},
     entities |-> {"player", "orc", "troll", "potion"},
     pos |-> [e \in Actors \cup Items |->
                CASE e = "player" -> <<0, 0>>
                  [] e = "orc" -> <<2, 0>>
                  [] e = "troll" -> <<3, 0>>
                  [] OTHER -> <<1, 0>>],
     scrolls |-> NumScrolls]

\* a monster in plain sight on the far side of a chasm, out of reach
MoatWorld ==
    [width |-> 3, height |-> 1, walls |-> {}, chasms |-> {<<1, 0>>},
     entities |-> {"player", "orc"},
     pos |-> [e \in Actors \cup Items |-> IF e = "orc" THEN <<2, 0>> ELSE <<0, 0>>],
     scrolls |-> 0]

Worlds ==
    {RingWorld(<<2, 0>>), RingWorld(<<2, 1>>), HallWorld, CorridorWorld, MoatWorld}

\* GameMap.__init__, with the floor of the world dug out of the wall tiles
InitMap(w) ==
    /\ width = w.width
    /\ height = w.height
    /\ tiles = [c \in (0 .. w.width - 1) \X (0 .. w.height - 1) |->
                  IF c \in w.walls THEN wall
                  ELSE IF c \in w.chasms THEN chasm ELSE floor]
    /\ entities = w.entities
    /\ visible = {}
    /\ explored = {}

\* the entities as they are spawned: actors block movement and start with a
\* HostileEnemy AI that has no path (the player too), items do neither
InitEntities(w) ==
    /\ pos = w.pos
    /\ blocks_movement = [e \in Actors \cup Items |-> e \in Actors]
    /\ ai = [e \in Actors \cup Items |->
               IF e \in Actors THEN HostileEnemy(<<>>) ELSE NoAI]
    /\ hp = [e \in Actors \cup Items |->
               IF e = Player THEN PlayerHp ELSE IF e \in Actors THEN MonsterHp ELSE 0]
    /\ scrolls = w.scrolls

\* Engine.__init__: an empty message log
InitEngine == message_log = 0

NoFile == [exists |-> FALSE, bytes |-> <<>>]
NoHeap == <<>>
NoRestore == [heap |-> <<>>, root |-> 0, from |-> <<>>]
NoIO == [op |-> "none", failed |-> "none", raised |-> FALSE]

NoItem == "None"
NoEquipment == [weapon |-> NoItem, armor |-> NoItem]
NoLevel == [current_level |-> 1, current_xp |-> 0, level_up_base |-> 0,
            level_up_factor |-> 0]
NoMain == [handler |-> "none", state |-> "none", saves |-> 0]
NoCalls == [op |-> "none"]

\* the components of the player and the main loop are followed in runs of their own
NoParts ==
    /\ equipment = NoEquipment
    /\ level = NoLevel
    /\ main = NoMain
    /\ call = NoCalls

\* the object graph is not followed in the runs of the turn loop and the pathfinder
NoWorld ==
    /\ heap = NoHeap
    /\ disk = NoFile
    /\ saved = NoHeap
    /\ restored = NoRestore
    /\ io = NoIO

NoCall ==
    /\ pending = {}
    /\ snapshot = {}
    /\ performed = [e \in Actors \cup Items |-> 0]
    /\ skipped = {}
    /\ raised = {}
    /\ last_action = [actor |-> "nobody", kind |-> "none", d |-> <<0, 0>>]

NoQuery ==
    /\ query = <<>>
    /\ path_result = <<>>

Init ==
    /\ \E w \in Worlds : InitMap(w) /\ InitEntities(w)
    /\ InitEngine
    /\ phase = "start"
    /\ propagated = FALSE
    /\ NoCall
    /\ NoQuery
    /\ NoWorld
    /\ NoParts

----------------------------------------------------------------------------
(* Turn scheduler: Engine.handle_enemy_turns *)

mapVars == <<width, height, tiles, entities>>
fovVars == <<visible, explored>>
queryVars == <<query, path_result>>

\* the snapshot without "- {self.player}"
LiveSnapshot_WithPlayer(slots) == ActorsOf(slots)

\* set(self.game_map.actors) - {self.player}, on the AI slots as they are at the call
LiveSnapshot(slots) == ActorsOf(slots) \ {Player}

\* the loop body without its try/except: what perform() raises leaves the handler
Escapes_NoHandler(r) == r

\* try: perform() except: pass -- whether what perform() raised leaves the handler
Escapes(r) == FALSE

Apply(eff) ==
    /\ pos' = eff.pos
    /\ ai' = eff.ai
    /\ hp' = eff.hp
    /\ blocks_movement' = eff.blocks_movement
    /\ message_log' = eff.message_log

\* the call starts: the snapshot the for loop iterates over
BeginEnemyTurns ==
    /\ phase' = "enemies"
    /\ snapshot' = LiveSnapshot(ai')
    /\ pending' = snapshot'
    /\ performed' = [e \in Actors \cup Items |-> 0]
    /\ skipped' = {}
    /\ raised' = {}
    /\ last_action' = [actor |-> "nobody", kind |-> "none", d |-> <<0, 0>>]
    /\ UNCHANGED propagated

\* one iteration of the for loop, on the entity the set iteration yields next
EnemyTurn(e) ==
    /\ phase = "enemies"
    /\ ~propagated
    /\ e \in pending
    /\ pending' = pending \ {e}
    /\ IF ai[e].kind # "None"
       THEN \E o \in Perform(e) :
              /\ Apply(o.eff)
              /\ performed' = [performed EXCEPT ![e] = @ + 1]
              /\ raised' = IF o.eff.raised THEN raised \cup {e} ELSE raised
              /\ propagated' = Escapes(o.eff.raised)
              /\ last_action' = [actor |-> e, kind |-> o.action.kind, d |-> o.action.d]
              /\ UNCHANGED skipped
       ELSE /\ skipped' = skipped \cup {e}
            /\ UNCHANGED <<pos, ai, hp, blocks_movement, message_log, performed,
                           raised, propagated, last_action>>
    /\ UNCHANGED <<mapVars, fovVars, queryVars, worldVars, partVars, scrolls, phase, snapshot>>

----------------------------------------------------------------------------
(* Visibility tracker: Engine.update_fov *)

Transparent == [c \in Cells |-> tiles[c].transparent]

\* visible |= compute_fov(...) instead of an assignment
NewVisible_Accumulated(old, fov) == old \cup fov

\* self.game_map.visible[:] = compute_fov(...)
NewVisible(old, fov) == fov

\* update_fov without its last line
NewExplored_Forgotten(old, vis) == old

\* explored = visible instead of explored |= visible
NewExplored_Overwritten(old, vis) == vis

\* self.game_map.explored |= self.game_map.visible
NewExplored(old, vis) == old \cup vis

\* the game has been set up, or handle_enemy_turns has returned: update_fov runs
\* and the player is next
UpdateFov ==
    /\ phase \in {"start", "enemies"}
    /\ ~propagated
    /\ pending = {}
    /\ visible' = NewVisible(visible, compute_fov(Transparent, pos[Player], FovRadius))
    /\ explored' = NewExplored(explored, visible')
    /\ phase' = "player"
    /\ snapshot' = {}
    /\ pending' = {}
    /\ performed' = [e \in Actors \cup Items |-> 0]
    /\ skipped' = {}
    /\ raised' = {}
    /\ last_action' = [actor |-> "nobody", kind |-> "none", d |-> <<0, 0>>]
    /\ UNCHANGED <<mapVars, queryVars, worldVars, partVars, pos, blocks_movement, ai, hp,
                   message_log, scrolls, propagated>>

----------------------------------------------------------------------------
(* The player's turn: an action that succeeds is followed by the enemies' turns *)

CanAct == phase = "player" /\ is_alive(Player) /\ message_log < MaxLog

PlayerBump(d) ==
    /\ CanAct
    /\ LET eff == BumpAction(ai, Player, d)
       IN  /\ ~eff.raised
           /\ Apply(eff)
    /\ BeginEnemyTurns
    /\ UNCHANGED <<mapVars, fovVars, queryVars, worldVars, partVars, scrolls>>

PlayerWait ==
    /\ CanAct
    /\ Apply(WaitAction(ai, Player))
    /\ BeginEnemyTurns
    /\ UNCHANGED <<mapVars, fovVars, queryVars, worldVars, partVars, scrolls>>

\* a confusion scroll read at a visible living actor other than the player
PlayerConfuse(t) ==
    /\ CanAct
    /\ scrolls > 0
    /\ t \in actors \ {Player}
    /\ pos[t] \in visible
    /\ ai' = [ai EXCEPT ![t] = ConfusedEnemy(ai[t], ConfusionTurns)]
    /\ scrolls' = scrolls - 1
    /\ message_log' = message_log + 1
    /\ BeginEnemyTurns
    /\ UNCHANGED <<mapVars, fovVars, queryVars, worldVars, partVars, pos, hp, blocks_movement>>

----------------------------------------------------------------------------

Next ==
    \/ \E e \in Actors : EnemyTurn(e)
    \/ UpdateFov
    \/ \E d \in Directions : PlayerBump(d)
    \/ PlayerWait
    \/ \E t \in Actors : PlayerConfuse(t)

Spec == Init /\ [][Next]_vars

TypeOK ==
    /\ visible \subseteq Cells
    /\ explored \subseteq Cells
    /\ pending \subseteq snapshot

----------------------------------------------------------------------------
(* Properties of the turn scheduler *)

\* the step taken is the loop iteration of handle_enemy_turns on e
IterationOf(e) == phase = "enemies" /\ e \in pending /\ pending' = pending \ {e}

\* C1: what an actor's AI step raises inside handle_enemy_turns never leaves the
\* call, and after a failure every actor still to come can take its step, so that
\* when the loop ends every actor of the snapshot has been iterated.
C1_FailureContained ==
    /\ ~propagated
    /\ (raised # {} /\ pending # {}) => phase = "enemies"
    /\ (phase = "enemies" /\ pending = {}) =>
          \A a \in snapshot : performed[a] = 1 \/ a \in skipped

\* an actor took its step after another actor's step had failed in the same call
C1_Witness ==
    \E f \in raised :
        /\ last_action.actor \in snapshot \ {f}
        /\ performed[last_action.actor] = 1

\* C2: in one call perform() runs exactly once for every living non-player actor
\* whose AI slot is not empty when its turn comes, never for the player and never
\* twice for one actor.
C2_PerformOncePerActor ==
    /\ performed[Player] = 0
    /\ Player \notin snapshot
    /\ phase = "enemies" => actors \ {Player} \subseteq snapshot
    /\ \A a \in Actors \cup Items :
          /\ performed[a] <= 1
          /\ a \in snapshot \ pending =>
                IF a \in skipped
                THEN performed[a] = 0 /\ ai[a].kind = "None"
                ELSE performed[a] = 1
          /\ a \notin snapshot \ pending => performed[a] = 0 /\ a \notin skipped

\* a call ended in which two actors performed while the player stood among the living
C2_Witness ==
    /\ phase = "enemies"
    /\ pending = {}
    /\ is_alive(Player)
    /\ Cardinality({a \in snapshot : performed[a] = 1}) = 2

----------------------------------------------------------------------------
(* Properties of the behaviour state machine *)

ToPlayer(e) == <<pos[Player][1] - pos[e][1], pos[Player][2] - pos[e][2]>>

\* where the actor of the last action stood when it acted
StoodAt ==
    LET a == last_action.actor
    IN  IF last_action.kind = "move" /\ a \notin raised
        THEN <<pos[a][1] - last_action.d[1], pos[a][2] - last_action.d[2]>>
        ELSE pos[a]

\* C3: a Hostile AI whose actor stands on a visible cell at Chebyshev distance 1
\* from the player emits a melee action at the player's offset, never a move,
\* whatever its cached path holds, and that invocation leaves the cached path as
\* it was.
C3_AdjacentHostileAttacks ==
    [][\A e \in Actors :
         (/\ IterationOf(e)
          /\ ai[e].kind = "Hostile"
          /\ pos[e] \in visible
          /\ Chebyshev(pos[e], pos[Player]) = 1)
         => /\ last_action' = [actor |-> e, kind |-> "melee", d |-> ToPlayer(e)]
            /\ performed'[e] = performed[e] + 1
            /\ pos'[e] = pos[e]
            /\ ai'[e] = ai[e]]_vars

\* a Hostile AI that still holds a cached path has attacked the player next to it
C3_Witness ==
    /\ last_action.kind = "melee"
    /\ last_action.actor \in Actors
    /\ ai[last_action.actor].kind = "Hostile"
    /\ ai[last_action.actor].path # <<>>
    /\ pos[last_action.actor] \in visible
    /\ Chebyshev(pos[last_action.actor], pos[Player]) = 1

C5_ConfusionRunsItsCourse ==
    [][\A e \in Actors :
         (IterationOf(e) /\ ai[e].kind = "Confused")
         => IF ai[e].bumps < ConfusionTurns
            THEN /\ last_action'.actor = e
                 /\ last_action'.kind = "bump"
                 /\ last_action'.d \in Directions
                 /\ ai'[e] = [ai[e] EXCEPT !.bumps = @ + 1, !.turns_remaining = @ - 1]
            ELSE /\ last_action' = [actor |-> e, kind |-> "none", d |-> <<0, 0>>]
                 /\ ai' = [ai EXCEPT ![e] = ai[e].previous_ai]
                 /\ message_log' = message_log + 1
                 /\ e \notin raised'
                 /\ UNCHANGED <<pos, hp, blocks_movement>>]_vars

\* a confusion has run out and the actor is Hostile again
C5_Witness ==
    /\ last_action.kind = "none"
    /\ last_action.actor \in Actors
    /\ performed[last_action.actor] = 1
    /\ ai[last_action.actor].kind = "Hostile"

\* C6: the previous AI a Confused AI stores is never itself a Confused AI.
C6_PreviousNeverConfused ==
    \A e \in Actors :
        ai[e].kind = "Confused" => ai[e].previous_ai.kind # "Confused"

\* C15: a step of a non-player actor that raises inside handle_enemy_turns
\* leaves the world as it was: the position of every entity, the entity set of
\* the map, the message log, and with them the hit points and the blocking flags.
C15_FailedStepLeavesWorld ==
    [][\A e \in Actors :
         (IterationOf(e) /\ e \notin raised /\ e \in raised')
         => /\ pos' = pos
            /\ entities' = entities
            /\ message_log' = message_log
            /\ hp' = hp
            /\ blocks_movement' = blocks_movement]_vars

\* the move of a Hostile AI toward a cell another actor stands on has failed
C15_Witness ==
    /\ last_action.kind = "move"
    /\ last_action.actor \in raised
    /\ get_blocking_entity_at_location(Offset(pos[last_action.actor], last_action.d))
         \ {last_action.actor} # {}

\* C17: a Hostile AI emits Wait and raises nothing when its actor stands on a
\* cell that is not visible and the cached path is empty, and when its actor
\* stands on a visible cell not adjacent to the player and the pathfinder finds
\* no path to the player.
C17_NoPathMeansWait ==
    [][\A e \in Actors :
         (/\ IterationOf(e)
          /\ ai[e].kind = "Hostile"
          /\ \/ pos[e] \notin visible /\ ai[e].path = <<>>
             \/ /\ pos[e] \in visible
                /\ Chebyshev(pos[e], pos[Player]) > 1
                /\ get_path_to(e, pos[Player]) = {<<>>})
         => /\ last_action' = [actor |-> e, kind |-> "wait", d |-> <<0, 0>>]
            /\ e \notin raised'
            /\ ai'[e] = HostileEnemy(<<>>)
            /\ pos' = pos]_vars

\* a Hostile AI in sight of the player and out of reach has waited
C17_Witness ==
    /\ phase = "enemies"
    /\ last_action.kind = "wait"
    /\ last_action.actor \in Actors \ raised
    /\ ai[last_action.actor] = HostileEnemy(<<>>)
    /\ pos[last_action.actor] \in visible
    /\ Chebyshev(pos[last_action.actor], pos[Player]) > 1
    /\ get_path_to(last_action.actor, pos[Player]) = {<<>>}

\* C18: turns_remaining of a Confused AI is never negative and falls by one with
\* every invocation that does not revert, whether the bump raises or not, so that
\* the AI given n turns reverts on invocation n+1 and on no other.
C18_EveryBumpCounts ==
    [][\A e \in Actors :
         /\ ai[e].kind = "Confused"
            => /\ ai[e].turns_remaining >= 0
               /\ ai[e].turns_remaining + ai[e].bumps = ConfusionTurns
         /\ ai'[e].kind = "Confused" => ai'[e].turns_remaining >= 0
         /\ (IterationOf(e) /\ ai[e].kind = "Confused")
            => IF ai[e].bumps = ConfusionTurns
               THEN ai'[e] = ai[e].previous_ai
               ELSE /\ ai'[e].kind = "Confused"
                    /\ ai'[e].turns_remaining = ai[e].turns_remaining - 1
                    /\ ai'[e].previous_ai = ai[e].previous_ai]_vars

\* the last bump of a confusion has failed and has used up the last turn
C18_Witness ==
    /\ last_action.kind = "bump"
    /\ last_action.actor \in raised
    /\ ai[last_action.actor].kind = "Confused"
    /\ ai[last_action.actor].turns_remaining = 0

\* C19: a Confused AI stores the AI its actor had when the confusion was applied
\* and keeps it as it is; the reverting invocation puts that AI, cached path and
\* all, back in the slot (be it a Confused AI that was stored). An actor whose
\* slot is empty is passed over by the loop
\* and stays as it is.
C19_RevertRestoresStoredAI ==
    [][\A e \in Actors :
         /\ ai'[e].kind = "Confused"
            => \/ ai'[e] = ConfusedEnemy(ai[e], ConfusionTurns)
               \/ /\ ai[e].kind = "Confused"
                  /\ \/ ai'[e].previous_ai = ai[e].previous_ai
                     \/ ai'[e] = ai[e].previous_ai
         /\ (IterationOf(e) /\ ai[e].kind = "Confused" /\ ai[e].turns_remaining <= 0)
            => /\ ai'[e] = ai[e].previous_ai
               /\ ai[e].previous_ai.kind = "None" => e \notin ActorsOf(ai')
         /\ (IterationOf(e) /\ ai[e].kind = "None")
            => /\ e \in skipped'
               /\ UNCHANGED <<pos, ai, hp, blocks_movement, message_log, performed>>
         /\ (ai[e].kind = "None" /\ phase = "player")
            => e \notin snapshot']_vars

\* a confusion has run out and the Hostile AI is back with the path it had cached
C19_Witness ==
    /\ last_action.kind = "none"
    /\ last_action.actor \in Actors
    /\ performed[last_action.actor] = 1
    /\ ai[last_action.actor].kind = "Hostile"
    /\ ai[last_action.actor].path # <<>>

\* C24: the offset of every move a Hostile AI emits has both components in
\* -1 .. 1: the move targets one of the eight cells around the actor.
C24_HostileMovesAdjacent ==
    [][\A e \in Actors :
         (IterationOf(e) /\ ai[e].kind = "Hostile" /\ last_action'.kind = "move")
         => last_action'.d \in Directions]_vars

\* C25: an actor of the snapshot whose AI slot has been emptied before its turn
\* comes is passed over and nothing changes; the living actors the map reports,
\* as a whole and by location, all have an AI and hit points left.
C25_DeadActorsStayOut ==
    [][/\ \A e \in Actors :
            (IterationOf(e) /\ ai[e].kind = "None")
            => /\ e \in skipped'
               /\ UNCHANGED <<pos, ai, hp, blocks_movement, message_log, performed,
                              last_action>>
       /\ \A a \in actors : ai[a].kind # "None" /\ hp[a] > 0
       /\ \A a \in ActorsOf(ai') : ai'[a].kind # "None" /\ hp'[a] > 0
       /\ \A c \in Cells : \A a \in get_actor_at_location(c) :
            ai[a].kind # "None" /\ hp[a] > 0]_vars

\* a monster of the snapshot was killed by a confused monster before its turn,
\* and has been passed over; it is still in the entity set
C25_Witness ==
    /\ phase = "enemies"
    /\ last_action.kind = "bump"
    /\ \E a \in skipped \cap snapshot :
         /\ a # last_action.actor
         /\ a \in entities
         /\ ai[a].kind = "None"
         /\ hp[a] = 0
         /\ performed[a] = 0

----------------------------------------------------------------------------
(* Properties of the visibility tracker *)

\* C7: every visible cell is explored.
C7_ExploredCoversVisible == visible \subseteq explored

\* update_fov has run for the first time: what is visible is what is explored
C7_Witness ==
    /\ phase = "player"
    /\ visible # {}
    /\ visible # Cells
    /\ explored = visible

\* C8: the explored set only grows.
C8_ExploredGrows == [][explored \subseteq explored']_vars

\* cells seen earlier are out of sight now and still explored
C8_Witness ==
    /\ phase = "player"
    /\ explored \ visible # {}
    /\ visible \ {pos[Player]} # {}

\* C9: after update_fov the visible set is the field of view from the player's
\* current position over the transparency grid, within the radius; nothing of
\* the former visible set survives outside it.
C9_VisibleRecomputed ==
    phase = "player" =>
        /\ visible = compute_fov(Transparent, pos[Player], FovRadius)
        /\ \A c \in visible :
              (c[1] - pos[Player][1]) * (c[1] - pos[Player][1])
                + (c[2] - pos[Player][2]) * (c[2] - pos[Player][2])
              <= FovRadius * FovRadius

\* a cell seen earlier is in plain line of sight but beyond the radius, and is
\* not visible any more
C9_Witness ==
    /\ phase = "player"
    /\ \E c \in explored \ visible :
          /\ LineOfSight(Transparent, pos[Player], c)
          /\ Chebyshev(pos[Player], c) > FovRadius

----------------------------------------------------------------------------
(* The pathfinder on its own: get_path_to of one actor, asked once for a cell of
   a map drawn from the bounded maps, with or without another entity on it *)

PathCells == (0 .. PathWidth - 1) \X (0 .. 2)

\* the west column is open floor, where the pather starts; the walls are drawn
\* from the other cells. The pather is alone, or shares its cell with an item, or
\* another actor stands on some other floor cell.
PathInit ==
    /\ width = PathWidth
    /\ height = 3
    /\ \E walls \in {W \in SUBSET {c \in PathCells : c[1] > 0} :
                        Cardinality(W) <= MaxWalls} :
         /\ tiles = [c \in PathCells |-> IF c \in walls THEN wall ELSE floor]
         /\ \E s \in {c \in PathCells : c[1] = 0} :
              \/ /\ entities \in {{"orc"}, {"orc", "potion"}}
                 /\ pos = [e \in Actors \cup Items |-> s]
              \/ /\ entities = {"orc", "troll"}
                 /\ \E t \in PathCells \ (walls \cup {s}) :
                      pos = [e \in Actors \cup Items |-> IF e = "troll" THEN t ELSE s]
    /\ blocks_movement = [e \in Actors \cup Items |-> e \in Actors]
    /\ ai = [e \in Actors \cup Items |->
               IF e \in Actors THEN HostileEnemy(<<>>) ELSE NoAI]
    /\ hp = [e \in Actors \cup Items |-> IF e \in Actors THEN MonsterHp ELSE 0]
    /\ visible = {}
    /\ explored = {}
    /\ message_log = 0
    /\ scrolls = 0
    /\ phase = "path"
    /\ propagated = FALSE
    /\ NoCall
    /\ NoQuery
    /\ NoWorld
    /\ NoParts

GetPathTo(e, dest) ==
    /\ phase = "path"
    /\ query = <<>>
    /\ e \in entities
    /\ query' = <<e, dest>>
    /\ path_result' \in get_path_to(e, dest)
    /\ UNCHANGED <<mapVars, fovVars, worldVars, partVars, pos, blocks_movement, ai, hp,
                   message_log, scrolls, phase, pending, snapshot, performed, skipped,
                   raised, propagated, last_action>>

NextPath == \E dest \in Cells : GetPathTo("orc", dest)

SpecPath == PathInit /\ [][NextPath]_vars

\* the cells that can be reached from the cells of S over walkable cells
RECURSIVE Flood(_)
Flood(S) ==
    LET more == S \cup {c \in Cells : tiles[c].walkable /\ \E s \in S : Adjacent8(s, c)}
    IN  IF more = S THEN S ELSE Flood(more)

\* no entity other than e blocks movement
NoBlockersBut(e) == \A o \in entities \ {e} : ~blocks_movement[o]

\* C10: with no blocking entity on the map, the path to a cell C other than the
\* start S that can be reached over walkable cells is not empty, does not hold S,
\* ends at C, and S followed by its cells is a chain of 8-directionally adjacent
\* walkable cells.
C10_PathToReachableCell ==
    (/\ query # <<>>
     /\ NoBlockersBut(query[1])
     /\ query[2] # pos[query[1]]
     /\ query[2] \in Flood({pos[query[1]]}))
    => LET chain == <<pos[query[1]]>> \o path_result
       IN  /\ path_result # <<>>
           /\ path_result[Len(path_result)] = query[2]
           /\ \A i \in 1 .. Len(path_result) : path_result[i] # pos[query[1]]
           /\ \A i \in 1 .. Len(chain) : in_bounds(chain[i]) /\ tiles[chain[i]].walkable
           /\ \A i \in 1 .. Len(chain) - 1 : Adjacent8(chain[i], chain[i + 1])

\* a path of several cells around a wall has been returned, no entity blocking
C10_Witness ==
    /\ query # <<>>
    /\ NoBlockersBut(query[1])
    /\ Len(path_result) >= 3
    /\ path_result[Len(path_result)] = query[2]
    /\ Chebyshev(pos[query[1]], query[2]) < Len(path_result)

\* C11: the path to a cell that cannot be reached from the start over walkable
\* cells (a wall cell, or floor walled off from the start) is the empty sequence,
\* whatever entities stand on the map.
C11_UnreachableGivesEmpty ==
    (/\ query # <<>>
     /\ query[2] \notin Flood({pos[query[1]]}))
    => path_result = <<>>

\* the path to a floor cell walled off from the start has been asked for
C11_Witness ==
    /\ query # <<>>
    /\ tiles[query[2]].walkable
    /\ query[2] \notin Flood({pos[query[1]]})
    /\ path_result = <<>>

----------------------------------------------------------------------------
(* The cost of a route as the description of the pathfinder states it, computed
   apart from the pathfinder *)

\* the movement-blocking entities on the map
Blockers == {o \in entities : blocks_movement[o]}

\* the cells that can be reached from the cells of S over walkable cells other
\* than the banned ones
RECURSIVE FloodWithout(_, _)
FloodWithout(S, banned) ==
    LET more == S \cup {c \in Cells \ banned :
                          tiles[c].walkable /\ \E s \in S : Adjacent8(s, c)}
    IN  IF more = S THEN S ELSE FloodWithout(more, banned)

\* 2 for a step along a row or a column, 3 for a diagonal step
StepWeight(a, b) == IF a[1] = b[1] \/ a[2] = b[2] THEN 2 ELSE 3

\* 1 for a walkable cell, plus 10 for each of the blockers standing on it
CellCost(c, blockers) == 1 + 10 * Cardinality({o \in blockers : pos[o] = c})

\* the sum, over the cells of the route, of step weight times cell cost
RECURSIVE RouteCost(_, _, _)
RouteCost(s, route, blockers) ==
    IF route = <<>> THEN 0
    ELSE StepWeight(s, Head(route)) * CellCost(Head(route), blockers)
           + RouteCost(Head(route), Tail(route), blockers)

\* the least costs d of reaching each cell from some cells (-1: not reached),
\* after one more step is allowed
OneMoreStep(d, blockers) ==
    [c \in Cells |->
        LET cands == {d[n] + StepWeight(n, c) * CellCost(c, blockers) :
                        n \in {m \in Cells : /\ Adjacent8(m, c)
                                             /\ d[m] >= 0
                                             /\ tiles[c].walkable}}
                     \cup (IF d[c] >= 0 THEN {d[c]} ELSE {})
        IN  IF cands = {} THEN -1 ELSE MinOf(cands)]

RECURSIVE CheapestFrom(_, _)
CheapestFrom(d, blockers) ==
    LET more == OneMoreStep(d, blockers)
    IN  IF more = d THEN d ELSE CheapestFrom(more, blockers)

\* per cell, the least cost of a route from s of any number of steps
Cheapest(s, blockers) ==
    CheapestFrom([c \in Cells |-> IF c = s THEN 0 ELSE -1], blockers)

\* C12: a blocking entity does not close its cell. The path to a cell that can be
\* reached over walkable cells is not empty and ends there even with a blocking
\* entity on the way; it passes through the cell of a blocking entity that stands
\* on every walkable route; and where a walkable route avoids the blocking
\* entities, its cost is not below the least cost on the map without them.
C12_BlockerIsSoft ==
    (/\ query # <<>>
     /\ query[2] # pos[query[1]]
     /\ query[2] \in Flood({pos[query[1]]}))
    => LET s == pos[query[1]]
           others == Blockers \ {query[1]}
           blocked == {pos[o] : o \in others}
       IN  /\ path_result # <<>>
           /\ path_result[Len(path_result)] = query[2]
           /\ \A b \in blocked :
                query[2] \notin FloodWithout({s}, {b})
                => \E i \in 1 .. Len(path_result) : path_result[i] = b
           /\ query[2] \in FloodWithout({s}, blocked)
              => RouteCost(s, path_result, Blockers) >= Cheapest(s, {})[query[2]]

\* a path has been returned that runs through the cell of a blocking entity
\* standing on the only way to a cell behind it
C12_Witness ==
    /\ query # <<>>
    /\ LET s == pos[query[1]]
       IN  \E o \in Blockers \ {query[1]} :
             /\ pos[o] # query[2]
             /\ query[2] \in Flood({s})
             /\ query[2] \notin FloodWithout({s}, {pos[o]})
             /\ \E i \in 1 .. Len(path_result) : path_result[i] = pos[o]

\* C20: the cost of the returned path, at step weight 2 or 3 times 1 plus 10 per
\* blocking entity on the cell entered, is the least cost of any route from the
\* start to the destination over walkable cells.
C20_PathIsCheapest ==
    (/\ query # <<>>
     /\ query[2] \in Flood({pos[query[1]]}))
    => /\ query[2] # pos[query[1]]
          => /\ path_result # <<>>
             /\ path_result[Len(path_result)] = query[2]
       /\ RouteCost(pos[query[1]], path_result, Blockers)
            = Cheapest(pos[query[1]], Blockers)[query[2]]

\* a path has been returned that is longer than the straight way, which a
\* blocking entity makes dearer
C20_Witness ==
    /\ query # <<>>
    /\ Blockers \ {query[1]} # {}
    /\ Len(path_result) > Chebyshev(pos[query[1]], query[2])
    /\ Cheapest(pos[query[1]], {})[query[2]] >= 0
    /\ RouteCost(pos[query[1]], path_result, Blockers)
         > Cheapest(pos[query[1]], {})[query[2]]
    /\ \A o \in Blockers \ {query[1]} :
         \A i \in 1 .. Len(path_result) : path_result[i] # pos[o]

----------------------------------------------------------------------------
(* The objects of a session and their references: the Engine, the GameWorld, the
   GameMap of each floor and the entities; Engine.save_as, the load of what it
   wrote, and GameWorld.generate_floor *)

\* floors the player can descend
MaxFloor == 2

\* the maps of the sessions whose objects are followed: two by two cells
WorldCells == (0 .. 1) \X (0 .. 1)

\* the Engine is the first object of a session
EngineAddr == 1
\* addresses below the objects that a load builds
LoadBase == 100

EngineObj(player, game_world, game_map, log) ==
    [cls |-> "Engine", player |-> player, game_world |-> game_world,
     game_map |-> game_map, message_log |-> log]

GameWorldObj(engine, current_floor) ==
    [cls |-> "GameWorld", engine |-> engine, current_floor |-> current_floor]

GameMapObj(engine, t, vis, expl, ents) ==
    [cls |-> "GameMap", engine |-> engine, tiles |-> t, visible |-> vis,
     explored |-> expl, entities |-> ents]

EntityObj(name, parent, at) ==
    [cls |-> "Entity", name |-> name, parent |-> parent, pos |-> at]

MaxOf(S) == CHOOSE m \in S : \A n \in S : m >= n

RECURSIVE SortedSeq(_)
SortedSeq(S) ==
    IF S = {} THEN <<>> ELSE <<MinOf(S)>> \o SortedSeq(S \ {MinOf(S)})

Range(q) == {q[i] : i \in 1 .. Len(q)}

\* the references an object holds, in the order its attributes are saved
RefSeq(o) ==
    CASE o.cls = "Engine" -> <<o.player, o.game_world, o.game_map>>
      [] o.cls = "GameWorld" -> <<o.engine>>
      [] o.cls = "GameMap" -> <<o.engine>> \o SortedSeq(o.entities)
      [] OTHER -> <<o.parent>>

\* the object with every reference r replaced by f[r]
Rename(o, f) ==
    CASE o.cls = "Engine" ->
           [o EXCEPT !.player = f[@], !.game_world = f[@], !.game_map = f[@]]
      [] o.cls = "GameWorld" -> [o EXCEPT !.engine = f[@]]
      [] o.cls = "GameMap" ->
           [o EXCEPT !.engine = f[@], !.entities = {f[a] : a \in @}]
      [] OTHER -> [o EXCEPT !.parent = f[@]]

\* the pickle memo: the objects reached from the root, each once, in the order
\* they are first met
RECURSIVE Memo(_, _, _)
Memo(h, todo, seen) ==
    IF todo = <<>> THEN seen
    ELSE IF Head(todo) \in Range(seen) THEN Memo(h, Tail(todo), seen)
    ELSE Memo(h, RefSeq(h[Head(todo)]) \o Tail(todo), Append(seen, Head(todo)))

\* pickle.dumps(root): one record per object of the memo, a reference written as
\* the memo index of its object
PickleOf(h, order) ==
    LET idx == [a \in Range(order) |-> CHOOSE i \in 1 .. Len(order) : order[i] = a]
    IN  [i \in 1 .. Len(order) |-> Rename(h[order[i]], idx)]

\* a serializer that writes the player the Engine refers to as an object of its
\* own, apart from the one in the entity set
pickle_dumps_CopiesPlayer(h, root) ==
    LET b == PickleOf(h, Memo(h, <<root>>, <<>>))
    IN  Append([b EXCEPT ![1].player = Len(b) + 1], b[b[1].player])

\* pickle.dumps(self)
pickle_dumps(h, root) == PickleOf(h, Memo(h, <<root>>, <<>>))

\* pickle.loads: one new object per record, at the addresses after base, with
\* the memo indices turned into the addresses of the new objects; the root is the
\* first
pickle_loads(b, base) ==
    [a \in {base + i : i \in 1 .. Len(b)} |->
        Rename(b[a - base], [i \in 1 .. Len(b) |-> base + i])]

\* lzma.compress: the stream between a header and a closing check
lzma_compress(b) == <<[cls |-> "xz-header"]>> \o b \o <<[cls |-> "xz-check"]>>

\* what lzma.decompress accepts
IsCompressed(z) ==
    /\ Len(z) >= 2
    /\ z[1].cls = "xz-header"
    /\ z[Len(z)].cls = "xz-check"

lzma_decompress(z) == SubSeq(z, 2, Len(z) - 1)

\* open(filename, "wb"): the file exists and is empty
OpenForWriting(d) == [exists |-> TRUE, bytes |-> <<>>]

\* f.write(data), of which the first k bytes arrive
Write(d, data, k) == [d EXCEPT !.bytes = @ \o SubSeq(data, 1, k)]

\* procgen.generate_dungeon: a new map of floor tiles, nothing of it seen yet,
\* with the player placed on it; the map the player leaves is not touched
generate_dungeon(h, engine) ==
    LET new == MaxOf(DOMAIN h) + 1
        player == h[engine].player
    IN  [map |-> new,
         heap |-> [a \in DOMAIN h \cup {new} |->
                     IF a = new
                     THEN GameMapObj(engine, [c \in WorldCells |-> floor], {}, {},
                                     {player})
                     ELSE IF a = player
                     THEN EntityObj(h[a].name, new, <<0, 0>>)
                     ELSE h[a]]]

\* generate_floor writing the generated floor over the map object in use
generate_floor_InPlace(h, w) ==
    LET engine == h[w].engine
        old == h[engine].game_map
        g == generate_dungeon([h EXCEPT ![w].current_floor = @ + 1], engine)
    IN  [a \in DOMAIN h |->
           IF a = old THEN g.heap[g.map]
           ELSE IF a = h[engine].player THEN [g.heap[a] EXCEPT !.parent = old]
           ELSE g.heap[a]]

\* GameWorld.generate_floor on the GameWorld at w
generate_floor(h, w) ==
    LET engine == h[w].engine
        g == generate_dungeon([h EXCEPT ![w].current_floor = @ + 1], engine)
    IN  [g.heap EXCEPT ![engine].game_map = g.map]

\* the turn loop and the pathfinder are not run while the objects are followed
NoGame ==
    /\ width = 2
    /\ height = 2
    /\ tiles = [c \in WorldCells |-> floor]
    /\ entities = {}
    /\ pos = [e \in Actors \cup Items |-> <<0, 0>>]
    /\ blocks_movement = [e \in Actors \cup Items |-> FALSE]
    /\ ai = [e \in Actors \cup Items |-> NoAI]
    /\ hp = [e \in Actors \cup Items |-> 0]
    /\ visible = {}
    /\ explored = {}
    /\ message_log = 0
    /\ scrolls = 0
    /\ phase = "world"
    /\ propagated = FALSE
    /\ NoCall
    /\ NoQuery

\* a session on its first floor: Engine, GameWorld, GameMap, the player and a
\* monster, with the references the constructors and the spawning set up; no
\* save file yet
WorldInit ==
    /\ NoGame
    /\ \E t \in {[c \in WorldCells |-> floor],
                 [c \in WorldCells |-> IF c = <<1, 1>> THEN wall ELSE floor]},
          vis \in {{<<0, 0>>}, {<<0, 0>>, <<1, 0>>}},
          seen \in {{}, {<<0, 1>>}},
          at \in {<<1, 0>>, <<0, 1>>},
          log \in 0 .. 1 :
         heap = [a \in 1 .. 5 |->
                   CASE a = EngineAddr -> EngineObj(4, 2, 3, log)
                     [] a = 2 -> GameWorldObj(EngineAddr, 0)
                     [] a = 3 -> GameMapObj(EngineAddr, t, vis, vis \cup seen, {4, 5})
                     [] a = 4 -> EntityObj("player", 3, <<0, 0>>)
                     [] OTHER -> EntityObj("orc", 3, at)]
    /\ disk = NoFile
    /\ saved = NoHeap
    /\ restored = NoRestore
    /\ io = NoIO
    /\ NoParts

gameVars == <<mapVars, fovVars, queryVars, pos, blocks_movement, ai, hp, message_log,
              scrolls, phase, pending, snapshot, performed, skipped, raised,
              propagated, last_action>>

\* Engine.save_as(filename), with the step at which it fails, if it does: what a
\* failing step raises leaves save_as
SaveAs ==
    /\ phase = "world"
    /\ \E failed \in {"none", "dumps", "open", "write"} :
         LET data == lzma_compress(pickle_dumps(heap, EngineAddr))
         IN  /\ io' = [op |-> "save", failed |-> failed, raised |-> failed # "none"]
             /\ CASE failed \in {"dumps", "open"} -> UNCHANGED <<disk, saved>>
                  [] failed = "write" ->
                       /\ \E k \in 0 .. Len(data) - 1 :
                            disk' = Write(OpenForWriting(disk), data, k)
                       /\ saved' = NoHeap
                  [] OTHER ->
                       /\ disk' = Write(OpenForWriting(disk), data, Len(data))
                       /\ saved' = heap
    /\ UNCHANGED <<gameVars, partVars, heap, restored>>

\* the load of the save file: pickle.loads(lzma.decompress(f.read()))
Load ==
    /\ phase = "world"
    /\ IF disk.exists /\ IsCompressed(disk.bytes)
       THEN /\ restored' = [heap |-> pickle_loads(lzma_decompress(disk.bytes), LoadBase),
                            root |-> LoadBase + 1,
                            from |-> saved]
            /\ io' = [op |-> "load", failed |-> "none", raised |-> FALSE]
       ELSE /\ io' = [op |-> "load", failed |-> "read", raised |-> TRUE]
            /\ UNCHANGED restored
    /\ UNCHANGED <<gameVars, partVars, heap, disk, saved>>

\* the player takes the stairs down
GenerateFloor ==
    /\ phase = "world"
    /\ heap[heap[EngineAddr].game_world].current_floor < MaxFloor
    /\ heap' = generate_floor(heap, heap[EngineAddr].game_world)
    /\ io' = [op |-> "descend", failed |-> "none", raised |-> FALSE]
    /\ UNCHANGED <<gameVars, partVars, disk, saved, restored>>

NextWorld ==
    \/ SaveAs
    \/ Load
    \/ GenerateFloor

SpecWorld == WorldInit /\ [][NextWorld]_vars

----------------------------------------------------------------------------
(* Properties of save_as, the load and generate_floor *)

\* C13: a save_as that fails, at whatever step, raises to its caller and leaves
\* a save file that exists with the bytes it had.
C13_FailedSaveKeepsFile ==
    [][(io'.op = "save" /\ io'.failed # "none")
       => /\ io'.raised
          /\ disk.exists => disk' = disk]_vars

\* C14: the objects a load builds from what save_as wrote make up the world that
\* was saved: the same tiles, visible and explored cells, entities with their
\* positions, message log, floor and player; the player the restored Engine refers
\* to is the one object in the entity set of the restored map, every entity of
\* that map refers back to it, and the map and the GameWorld refer back to the
\* restored Engine.
C14_LoadRestoresWorld ==
    restored # NoRestore
    => LET h == restored.from
           r == restored.heap
           E == h[EngineAddr]
           F == r[restored.root]
           M == h[E.game_map]
           N == r[F.game_map]
       IN  /\ F.cls = "Engine"
           /\ F.message_log = E.message_log
           /\ r[F.game_world].current_floor = h[E.game_world].current_floor
           /\ N.cls = "GameMap"
           /\ N.tiles = M.tiles
           /\ N.visible = M.visible
           /\ N.explored = M.explored
           /\ Cardinality(N.entities) = Cardinality(M.entities)
           /\ {<<r[a].name, r[a].pos>> : a \in N.entities}
                = {<<h[a].name, h[a].pos>> : a \in M.entities}
           /\ r[F.player].name = h[E.player].name
           /\ r[F.player].pos = h[E.player].pos
           /\ F.player \in N.entities
           /\ Cardinality({a \in DOMAIN r : r[a].cls = "Entity"
                                            /\ r[a].name = r[F.player].name}) = 1
           /\ \A a \in N.entities : r[a].parent = F.game_map
           /\ N.engine = restored.root
           /\ r[F.game_world].engine = restored.root

\* a session saved on its first floor, with a monster beside the player, has
\* been loaded into objects at other addresses
C14_Witness ==
    /\ restored # NoRestore
    /\ io.op = "load"
    /\ Cardinality(restored.heap[restored.heap[restored.root].game_map].entities) = 2
    /\ restored.heap[restored.root].player \notin DOMAIN restored.from
    /\ restored.heap[restored.root].message_log = 1

\* C16: whenever the objects of the session change, generate_floor has run: the
\* floor number has gone up by one, the Engine refers to a map object that was
\* not there before, its player and its message log are the same, and the map
\* object it referred to before is as it was.
C16_DescentSwapsMap ==
    [][heap' # heap
       => LET E == heap[EngineAddr]
              F == heap'[EngineAddr]
              w == E.game_world
          IN  /\ heap'[w].current_floor = heap[w].current_floor + 1
              /\ F.game_map \notin DOMAIN heap
              /\ heap'[F.game_map].cls = "GameMap"
              /\ F.player = E.player
              /\ F.message_log = E.message_log
              /\ F.game_world = w
              /\ heap'[E.game_map] = heap[E.game_map]]_vars

\* the player has gone down twice; the maps of the floors left are still there
C16_Witness ==
    /\ io.op = "descend"
    /\ heap[heap[EngineAddr].game_world].current_floor >= 2
    /\ Cardinality({a \in DOMAIN heap : heap[a].cls = "GameMap"}) >= 3
    /\ heap[3].entities = {4, 5}

----------------------------------------------------------------------------
(* The player's equipment: Equipment.toggle_equip *)

\* the components log no more once the log holds this many messages
MaxMessages == 8

\* the items the player can select: two weapons, two pieces of armor, and an item
\* without an Equippable component
Equippables == {"dagger", "sword", "leather_armor", "chain_mail", "scroll"}

\* item.equippable.equipment_type, "None" for an item whose equippable is None
EquipmentType(item) ==
    CASE item \in {"dagger", "sword"} -> "WEAPON"
      [] item \in {"leather_armor", "chain_mail"} -> "ARMOR"
      [] OTHER -> "None"

\* an equipment and the length of the message log, as the methods below leave them
Equipped(eq, log) == [eq |-> eq, log |-> log]

\* Equipment.unequip_from_slot
unequip_from_slot(st, slot, add_message) ==
    Equipped([st.eq EXCEPT ![slot] = NoItem],
             st.log + (IF add_message THEN 1 ELSE 0))

\* Equipment.equip_to_slot
equip_to_slot(st, slot, item, add_message) ==
    LET cleared == IF st.eq[slot] # NoItem
                   THEN unequip_from_slot(st, slot, add_message)
                   ELSE st
    IN  Equipped([cleared.eq EXCEPT ![slot] = item],
                 cleared.log + (IF add_message THEN 1 ELSE 0))

\* the slot toggle_equip selects
SlotOf(item) == IF EquipmentType(item) = "WEAPON" THEN "weapon" ELSE "armor"

\* toggle_equip equipping whatever it is given, the item in the slot too
toggle_equip_AlwaysEquips(st, item, add_message) ==
    equip_to_slot(st, SlotOf(item), item, add_message)

\* Equipment.toggle_equip
toggle_equip(st, item, add_message) ==
    IF st.eq[SlotOf(item)] = item
    THEN unequip_from_slot(st, SlotOf(item), add_message)
    ELSE equip_to_slot(st, SlotOf(item), item, add_message)

otherVars == <<mapVars, fovVars, queryVars, worldVars, pos, blocks_movement, ai, hp,
               scrolls, phase, pending, snapshot, performed, skipped, raised,
               propagated, last_action>>

NoToggle ==
    [op |-> "none", item |-> NoItem, add_message |-> FALSE, before |-> NoEquipment,
     log_before |-> 0, prev_item |-> NoItem, prev_before |-> NoEquipment]

\* Equipment(): both slots empty
EquipmentInit ==
    /\ NoGame
    /\ NoWorld
    /\ equipment = NoEquipment
    /\ level = NoLevel
    /\ main = NoMain
    /\ call = NoToggle

\* the player selects an item; the starting equipment is put on without messages
ToggleEquip(item, add_message) ==
    /\ call.op \in {"none", "toggle_equip"}
    /\ message_log < MaxMessages
    /\ LET after == toggle_equip(Equipped(equipment, message_log), item, add_message)
       IN  /\ equipment' = after.eq
           /\ message_log' = after.log
    /\ call' = [op |-> "toggle_equip", item |-> item, add_message |-> add_message,
                before |-> equipment, log_before |-> message_log,
                prev_item |-> call.item, prev_before |-> call.before]
    /\ UNCHANGED <<otherVars, level, main>>

NextEquipment ==
    \E item \in Equippables, add_message \in BOOLEAN : ToggleEquip(item, add_message)

SpecEquipment == EquipmentInit /\ [][NextEquipment]_vars

\* ---------------------------------------------------------------------------
\* Level component (components/level.py): experience and levelling up.

\* largest experience award of one add_xp call, cap of the experience pool and
\* of the level in the guards; level_up_base of the player and level_up_factor,
\* scaled down from 200 and 150
MaxXp == 3
MaxPool == 8
MaxLevel == 3
LevelUpBase == 2
LevelUpFactor == 1

\* Level(level_up_base=base): level 1, no experience; monsters are built with
\* the default level_up_base of 0
NewLevel(base) ==
    [current_level |-> 1, current_xp |-> 0, level_up_base |-> base,
     level_up_factor |-> LevelUpFactor]

experience_to_next_level(lv) == lv.level_up_base + lv.current_level * lv.level_up_factor

\* MUTANT of requires_level_up: the threshold itself already counts
requires_level_up_AtThreshold(lv) == lv.current_xp >= experience_to_next_level(lv)

requires_level_up(lv) == lv.current_xp > experience_to_next_level(lv)

\* add_xp on the level lv with log messages so far; returns both
add_xp(lv, log, xp) ==
    IF xp = 0 \/ lv.level_up_base = 0
    THEN [level |-> lv, log |-> log]
    ELSE LET gained == [lv EXCEPT !.current_xp = @ + xp]
         IN  [level |-> gained,
              log |-> IF requires_level_up(gained) THEN log + 2 ELSE log + 1]

increase_level(lv) ==
    [lv EXCEPT !.current_xp = @ - experience_to_next_level(lv),
               !.current_level = @ + 1]

NoAddXp == [op |-> "none", xp |-> 0, before |-> NoLevel, log_before |-> 0]

LevelInit ==
    /\ NoGame
    /\ NoWorld
    /\ equipment = NoEquipment
    /\ level \in {NewLevel(0), NewLevel(LevelUpBase)}
    /\ main = NoMain
    /\ call = NoAddXp

AddXp(xp) ==
    /\ call.op \in {"none", "add_xp", "increase_level"}
    /\ message_log + 2 <= MaxMessages
    /\ level.current_xp + xp <= MaxPool
    /\ LET after == add_xp(level, message_log, xp)
       IN  /\ level' = after.level
           /\ message_log' = after.log
    /\ call' = [op |-> "add_xp", xp |-> xp, before |-> level, log_before |-> message_log]
    /\ UNCHANGED <<otherVars, equipment, main>>

\* the level-up menu is opened only for an actor that requires a level up
IncreaseLevel ==
    /\ call.op \in {"add_xp", "increase_level"}
    /\ requires_level_up(level)
    /\ level.current_level < MaxLevel
    /\ level' = increase_level(level)
    /\ call' = [op |-> "increase_level", xp |-> 0, before |-> level,
                log_before |-> message_log]
    /\ UNCHANGED <<otherVars, message_log, equipment, main>>

NextLevel ==
    \/ \E xp \in 0..MaxXp : AddXp(xp)
    \/ IncreaseLevel

SpecLevel == LevelInit /\ [][NextLevel]_vars

\* ---------------------------------------------------------------------------
\* The main loop (main.py): rendering, event handling, saving on the way out.

\* the handlers the loop can hold: the main menu and a popup over it hold no
\* engine, an EventHandler (the game proper) does
Handlers == {"MainMenu", "PopupMessage", "EventHandler"}

\* what a call can raise, and the classes each of these is an instance of;
\* QuitWithoutSaving derives from SystemExit, so that no 'except Exception'
\* catches it
Raisable == {"Exception", "QuitWithoutSaving", "SystemExit", "KeyboardInterrupt"}

ClassesOf(exc) ==
    CASE exc = "Exception" -> {"Exception", "BaseException"}
      [] exc = "QuitWithoutSaving" -> {"QuitWithoutSaving", "SystemExit", "BaseException"}
      [] exc = "SystemExit" -> {"SystemExit", "BaseException"}
      [] exc = "KeyboardInterrupt" -> {"KeyboardInterrupt", "BaseException"}

isinstance(exc, cls) == cls \in ClassesOf(exc)

\* isinstance(handler, input_handlers.EventHandler)
HoldsEngine(handler) == handler = "EventHandler"

\* MUTANT of save_game: saves whatever the handler is
save_game_AnyHandler(m) == [m EXCEPT !.saves = @ + 1]

\* save_game: engine.save_as is called if the handler holds an engine
save_game(m) ==
    IF HoldsEngine(m.handler) THEN [m EXCEPT !.saves = @ + 1] ELSE m

\* the except clauses around the loop, tried in order; each re-raises, which ends
\* the process
LoopExcept(m, exc) ==
    LET out == [m EXCEPT !.state = "exited"]
    IN  IF isinstance(exc, "QuitWithoutSaving") THEN out
        ELSE IF isinstance(exc, "SystemExit") THEN save_game(out)
        ELSE save_game(out)

NoEvent ==
    [op |-> "none", exc |-> "none", handler |-> "MainMenu", saves_before |-> 0,
     log_before |-> 0]

MainInit ==
    /\ NoGame
    /\ NoWorld
    /\ equipment = NoEquipment
    /\ level = NoLevel
    /\ main = [handler |-> "MainMenu", state |-> "running", saves |-> 0]
    /\ call = NoEvent

Running == main.state = "running" /\ call.op \in {"none", "render", "event"}

Called(op, exc) ==
    [op |-> op, exc |-> exc, handler |-> main.handler, saves_before |-> main.saves,
     log_before |-> message_log]

\* an event is handled without an exception; handle_events returns the handler
\* of the next iteration, and the game may log a message on the way
HandleEvent(next, logs) ==
    /\ Running
    /\ message_log < MaxMessages
    /\ main' = [main EXCEPT !.handler = next]
    /\ message_log' = IF HoldsEngine(main.handler) /\ logs THEN message_log + 1
                      ELSE message_log
    /\ call' = Called("event", "none")
    /\ UNCHANGED <<otherVars, equipment, level>>

\* convert_event or handle_events raises: the handler stays the one of the call;
\* 'except Exception' logs the traceback if there is an engine and the loop goes
\* on, anything else leaves the loop
EventRaises(exc) ==
    /\ Running
    /\ message_log < MaxMessages
    /\ IF isinstance(exc, "Exception")
       THEN /\ main' = main
            /\ message_log' = IF HoldsEngine(main.handler) THEN message_log + 1
                              ELSE message_log
       ELSE /\ main' = LoopExcept(main, exc)
            /\ message_log' = message_log
    /\ call' = Called("event", exc)
    /\ UNCHANGED <<otherVars, equipment, level>>

\* clear, on_render or present raises, outside the inner try
RenderRaises(exc) ==
    /\ Running
    /\ main' = LoopExcept(main, exc)
    /\ call' = Called("render", exc)
    /\ UNCHANGED <<otherVars, message_log, equipment, level>>

NextMain ==
    \/ \E next \in Handlers, logs \in BOOLEAN : HandleEvent(next, logs)
    \/ \E exc \in Raisable : EventRaises(exc)
    \/ \E exc \in Raisable : RenderRaises(exc)

SpecMain == MainInit /\ [][NextMain]_vars

\* C22: after a toggle_equip call the slot of the item (weapon for a WEAPON item,
\* armor for any other) is empty if it held the item and holds the item if it did
\* not, the item it held before having been taken off first (one message more);
\* the other slot is as it was. The weapon slot never holds anything but a WEAPON
\* item, the armor slot never a WEAPON item, and the second of two toggles of one
\* item in a row, the slot empty before the first, leaves the slot empty.
C22_ToggleEquip ==
    call.op = "toggle_equip"
    => LET slot == IF EquipmentType(call.item) = "WEAPON" THEN "weapon" ELSE "armor"
           other == IF slot = "weapon" THEN "armor" ELSE "weapon"
           held == call.before[slot]
       IN  /\ equipment[slot] = (IF held = call.item THEN NoItem ELSE call.item)
           /\ equipment[other] = call.before[other]
           /\ message_log - call.log_before =
                (IF ~call.add_message THEN 0
                 ELSE IF held = call.item \/ held = NoItem THEN 1
                 ELSE 2)
           /\ equipment.weapon # NoItem => EquipmentType(equipment.weapon) = "WEAPON"
           /\ equipment.armor # NoItem => EquipmentType(equipment.armor) # "WEAPON"
           /\ (call.prev_item = call.item /\ call.prev_before[slot] = NoItem)
              => equipment[slot] = NoItem

\* the sword has been put on and taken off again, the armor left on
C22_Witness ==
    /\ call.op = "toggle_equip"
    /\ call.item = "sword"
    /\ call.prev_item = "sword"
    /\ call.prev_before = [weapon |-> NoItem, armor |-> "chain_mail"]
    /\ equipment = [weapon |-> NoItem, armor |-> "chain_mail"]
    /\ call.add_message

\* C23: an add_xp call with xp 0, or on a level whose level_up_base is 0, leaves
\* the level and the message log as they were; any other call adds exactly xp to
\* current_xp, changes nothing else of the level, logs the gain, and logs the
\* level-up announcement as well exactly when current_xp is then strictly greater
\* than level_up_base + current_level * level_up_factor.
C23_AddXp ==
    call.op = "add_xp"
    => IF call.xp = 0 \/ call.before.level_up_base = 0
       THEN level = call.before /\ message_log = call.log_before
       ELSE /\ level = [call.before EXCEPT !.current_xp = call.before.current_xp + call.xp]
            /\ message_log - call.log_before \in {1, 2}
            /\ message_log - call.log_before = 2
               <=> level.current_xp >
                     level.level_up_base + level.current_level * level.level_up_factor

\* the award that brings the pool exactly to the threshold is not announced, the
\* next one is
C23_Witness ==
    /\ call.op = "add_xp"
    /\ call.xp > 0
    /\ call.before.current_xp =
         call.before.level_up_base + call.before.current_level * call.before.level_up_factor
    /\ call.before.current_level > 1
    /\ message_log = call.log_before + 2

\* an award to a level with level_up_base 0 has been made and has done nothing
C23_WitnessNoBase ==
    /\ call.op = "add_xp"
    /\ call.xp > 0
    /\ level.level_up_base = 0
    /\ level.current_xp = 0

\* C21: save_as has been called once when the loop has ended by anything but
\* QuitWithoutSaving while the handler held an engine, and has not been called
\* in any other case: not while the loop runs, not on a QuitWithoutSaving exit,
\* not without an engine. An Exception raised while an event was handled leaves
\* the loop running and nothing saved, and with an engine its traceback is one
\* more message in the log; a SystemExit or any other exception that is not an
\* Exception, and any exception raised outside the event handling, ends the loop.
C21_SavedOnExit ==
    LET ended == main.state = "exited"
        engine == call.handler = "EventHandler"
        inGame == call.op = "event" /\ call.exc = "Exception"
    IN  /\ main.saves =
             (IF ended /\ call.exc # "QuitWithoutSaving" /\ engine THEN 1 ELSE 0)
        /\ call.op \in {"event", "render"}
           => /\ ended <=> (call.exc # "none" /\ ~inGame)
              /\ call.saves_before = 0
              /\ call.exc # "none" => main.handler = call.handler
        /\ inGame
           => /\ main.state = "running"
              /\ main.saves = 0
              /\ message_log = call.log_before + (IF engine THEN 1 ELSE 0)
        /\ ended => message_log = call.log_before

\* the game has been left by SystemExit from an event and saved once
C21_Witness ==
    /\ main.state = "exited"
    /\ call.op = "event"
    /\ call.exc = "SystemExit"
    /\ main.handler = "EventHandler"
    /\ main.saves = 1
    /\ message_log > 0

\* the game has been left by QuitWithoutSaving and not saved
C21_WitnessQuit ==
    /\ main.state = "exited"
    /\ call.exc = "QuitWithoutSaving"
    /\ main.handler = "EventHandler"
    /\ main.saves = 0

\* an exception in the game has been logged and the loop runs on
C21_WitnessLogged ==
    /\ main.state = "running"
    /\ call.op = "event"
    /\ call.exc = "Exception"
    /\ call.handler = "EventHandler"
    /\ message_log = call.log_before + 1

====
